---- MODULE Spec2Model ----
(***************************************************************************)
(* x402-sentinel: the watcher creation endpoint (POST /watchers), the      *)
(* cron endpoint (POST /cron/check), the file-based store they use and the *)
(* token-price executor.                                                   *)
(*                                                                         *)
(* Every handler is an async function: it runs synchronously up to an      *)
(* await and is resumed later.  One action of the model is one such        *)
(* resumption: the file read or write the handler was waiting for,         *)
(* followed by the synchronous code up to the next await.                  *)
(***************************************************************************)
EXTENDS Integers, Sequences, FiniteSets, TLC

\* ------------------------------------------------------------------ bounds

\* Requests (POST /watchers and POST /cron/check together) received in one
\* behaviour in which each request is answered before the next arrives.
MaxRequests == 3

\* Requests received in one behaviour in which requests overlap.
MaxOverlapped == 2

\* File writes that fail in one behaviour on a disk that may fail.
MaxFailures == 1

\* ------------------------------------------------------------------ values

\* JavaScript null in a timestamp field (timestamps are 1, 2, ...).
Null == 0

\* A missing value (undefined, or the result of a failed find): the empty
\* sequence; a present value v is <<v>>.
Absent == <<>>

Some(v) == <<v>>

\* Array.prototype.find, given the elements that satisfy the test in array
\* order: the first of them, if any.
find(matches) == IF matches = <<>> THEN Absent ELSE Some(matches[1])

\* arr.findIndex(x => x.id === id): the first index with that id, or -1.
findIndex(arr, id) ==
    IF \E i \in 1..Len(arr) : arr[i].id = id
    THEN CHOOSE i \in 1..Len(arr) :
            arr[i].id = id /\ \A j \in 1..(i - 1) : arr[j].id # id
    ELSE -1

\* A JSON value of a config field.
Str(s) == [kind |-> "string", s |-> s, n |-> 0]

Num(n) == [kind |-> "number", s |-> "", n |-> n]

Undefined == [kind |-> "undefined", s |-> "", n |-> 0]

\* config.key for a config object: a sequence of <<key, value>> pairs in
\* insertion order, keys distinct.
Field(config, key) ==
    IF \E i \in 1..Len(config) : config[i][1] = key
    THEN config[CHOOSE i \in 1..Len(config) : config[i][1] = key][2]
    ELSE Undefined

\* String.prototype.startsWith on strings given as sequences of characters.
startsWith(str, prefix) ==
    /\ Len(str) >= Len(prefix)
    /\ SubSeq(str, 1, Len(prefix)) = prefix

\* ------------------------------------------------------------------ models.js

\* Revenue split, in hundredths (0.20 and 0.80).
PLATFORM_FEE == 20

OPERATOR_SHARE == 80

\* The unit of a share: a share s of the model is the amount s / FeeScale.
FeeScale == 100

\* ------------------------------------------------------------------ executors


\* tokenPriceExecutor.validate
validate(config) ==
    LET token     == Field(config, "token")
        threshold == Field(config, "threshold")
        direction == Field(config, "direction")
        e1 == IF token.kind # "string" \/ token.s = ""
              THEN <<"Token is required">> ELSE <<>>
        e2 == IF threshold.kind # "number" \/ threshold.n < 0
              THEN <<"Threshold must be a non-negative number">> ELSE <<>>
        e3 == IF ~(direction.kind = "string" /\ direction.s \in {"above", "below"})
              THEN <<"Direction must be above or below">> ELSE <<>>
        errors == e1 \o e2 \o e3
    IN  [valid |-> Len(errors) = 0, errors |-> errors]


\* ------------------------------------------------------------------ state

VARIABLES
    operators,   \* operators.json: sequence of Operator records
    types,       \* watcher-types.json: sequence of WatcherType records
    watchers,    \* watchers.json: sequence of Watcher records
    payments,    \* payments.json: sequence of Payment records
    receipts,    \* the receipts file: sequence of Receipt records
    nextId,      \* generateId(): the ids handed out so far
    now,         \* the wall clock read by new Date()
    req,         \* req[r]: the r-th POST /watchers handler (position, locals, response)
    cyc,         \* cyc[c]: the c-th POST /cron/check handler
    posts,       \* the webhook POSTs sent so far, in order
    failures,    \* the file writes that have failed so far
    env,         \* the environment: how many requests arrive, how many may be
                 \* in flight at once, how many file writes may fail
    upd,         \* upd[u]: the u-th store call made from outside the two routes:
                 \* updateWatcher(id, {status}) or deleteWatcher(id)
    executors,   \* the registry: the Map from executor id to executor
    reg,         \* the registerExecutor calls made so far, with what each threw
    evals        \* the calls of tokenPriceExecutor.check made on their own so
                 \* far, with what each returned or threw

vars ==
    <<operators, types, watchers, payments, receipts, nextId, now, req, cyc, posts,
      failures, env, upd, executors, reg, evals>>

\* ------------------------------------------------------------------ registry

\* What a property of an executor object is: a function, a value that is
\* no function, or undefined.
Capabilities == {"function", "string", "undefined"}

\* An executor object, by its three capabilities.
Executor(c, d, v) == [check |-> c, describe |-> d, validate |-> v]

\* The registry after the module is loaded: the two built-in executors.
BuiltIn ==
    [id \in {"wallet-balance", "token-price"} |->
        Executor("function", "function", "function")]

\* executors.get(executorId)
getExecutor(executorId) ==
    IF executorId \in DOMAIN executors THEN Some(executors[executorId]) ELSE Absent

\* executor.validate is truthy, for a registered executor.
hasValidate(executorId) == executors[executorId].validate # "undefined"

\* Array.from(executors.keys()), as a set.
listExecutors == DOMAIN executors

\* Map.prototype.set
set(map, key, value) ==
    [k \in DOMAIN map \cup {key} |-> IF k = key THEN value ELSE map[k]]

\* registerExecutor that does not look at describe.
registerExecutorUnchecked(map, id, executor) ==
    IF executor.check # "function"
    THEN [thrown |-> "Executor must have a check() function", executors |-> map]
    ELSE [thrown |-> "", executors |-> set(map, id, executor)]

\* registerExecutor(id, executor) on the registry map: what it throws ("" if
\* nothing) and the registry after it.
registerExecutor(map, id, executor) ==
    IF executor.check # "function"
    THEN [thrown |-> "Executor must have a check() function", executors |-> map]
    ELSE IF executor.describe # "function"
    THEN [thrown |-> "Executor must have a describe() function", executors |-> map]
    ELSE [thrown |-> "", executors |-> set(map, id, executor)]

\* The handlers of a behaviour: the r-th POST /watchers, the c-th POST /cron/check.
Creates == DOMAIN req

Cycles == DOMAIN cyc

files == <<operators, types, watchers, payments, receipts>>

\* The persisted records as one value.
Store ==
    [operators |-> operators, types |-> types, watchers |-> watchers,
     payments |-> payments, receipts |-> receipts]

\* ------------------------------------------------------------------ inputs

HookOk == <<"h", "t", "t", "p", "s", ":", "/", "/", "a">>

\* Begins with the characters 'http' and is no URL.
HookHttpish == <<"h", "t", "t", "p", "x">>

HookFtp == <<"f", "t", "p", ":", "/", "/", "a">>

\* No webhook in the body.
HookMissing == <<>>

CfgAbove ==
    << <<"token", Str("ETH")>>, <<"threshold", Num(3)>>, <<"direction", Str("above")>> >>

\* CfgAbove with its keys inserted in another order.
CfgAboveReordered ==
    << <<"direction", Str("above")>>, <<"threshold", Num(3)>>, <<"token", Str("ETH")>> >>

CfgBelow ==
    << <<"token", Str("ETH")>>, <<"threshold", Num(3)>>, <<"direction", Str("below")>> >>

\* Fails validation: no direction, and a threshold that is no number.
CfgInvalid ==
    << <<"token", Str("ETH")>>, <<"threshold", Str("3")>> >>

\* A request: the body's fields and the x-customer-id header.  A customerId
\* or header of "" is a request without it.
Request(typeId, config, webhook, customerId, header) ==
    [typeId |-> typeId, config |-> config, webhook |-> webhook,
     customerId |-> customerId, header |-> header]

\* The requests tried: one valid request and its variations in one field.
Requests ==
    {Request("t1", CfgAbove, HookOk, "alice", "")}
    \cup {Request(t, CfgAbove, HookOk, "alice", "") : t \in {"t2", "t3", "t4", "t9"}}
    \cup {Request("t1", c, HookOk, "alice", "") :
             c \in {CfgAboveReordered, CfgBelow, CfgInvalid}}
    \cup {Request("t1", CfgAbove, w, "alice", "") :
             w \in {HookHttpish, HookFtp, HookMissing}}
    \cup {Request("t1", CfgAbove, HookOk, "", h) : h \in {"", "alice"}}
    \cup {Request("t2", CfgInvalid, HookOk, "", "")}

\* ------------------------------------------------------------------ store.js

\* generateId(): a fresh id.
generateId == nextId

\* createOperator's record, reduced to the fields the handlers read.
Operator(id) ==
    [id |-> id, stats |-> [watchersCreated |-> 0, totalTriggers |-> 0]]

\* createWatcherType's record; executorId "" is a type without executorId.
WatcherType(id, operatorId, executorId, price) ==
    [id |-> id, operatorId |-> operatorId, executorId |-> executorId, price |-> price,
     status |-> "active", stats |-> [instances |-> 0, triggers |-> 0]]

getOperator(file, id) == find(SelectSeq(file, LAMBDA o : o.id = id))

getWatcherType(file, id) == find(SelectSeq(file, LAMBDA t : t.id = id))

\* getWatchers({status}): the watchers with that status, in file order.
getWatchers(file, status) == SelectSeq(file, LAMBDA w : w.status = status)

getWatcher(file, id) == find(SelectSeq(file, LAMBDA w : w.id = id))

\* createWatcher's new record.
newWatcher(id, watcher, createdAt) ==
    [id |-> id, typeId |-> watcher.typeId, operatorId |-> watcher.operatorId,
     customerId |-> watcher.customerId, config |-> watcher.config,
     webhook |-> watcher.webhook, status |-> "active", createdAt |-> createdAt,
     lastChecked |-> Null, lastCheckResult |-> Absent, lastTriggered |-> Null,
     triggerCount |-> 0]

\* createPayment's new record.
newPayment(id, payment, createdAt) ==
    [id |-> id, watcherId |-> payment.watcherId, operatorId |-> payment.operatorId,
     customerId |-> payment.customerId, amount |-> payment.amount,
     operatorShare |-> payment.operatorShare, platformShare |-> payment.platformShare,
     network |-> payment.network, createdAt |-> createdAt]

\* updateWatcher's merge { ...data.watchers[index], ...updates } of the
\* check fields.
mergeChecked(w, lastChecked, lastCheckResult) ==
    [w EXCEPT !.lastChecked = lastChecked, !.lastCheckResult = lastCheckResult]

\* mergeTriggered that adds the new count to the old one.
mergeTriggeredAdded(w, lastTriggered, triggerCount) ==
    [w EXCEPT !.lastTriggered = lastTriggered, !.triggerCount = @ + triggerCount + 1]

\* mergeTriggered that merges the count and not the time.
mergeTriggeredCountOnly(w, lastTriggered, triggerCount) ==
    [w EXCEPT !.triggerCount = triggerCount]

\* updateWatcher's merge of the trigger fields.
mergeTriggered(w, lastTriggered, triggerCount) ==
    [w EXCEPT !.lastTriggered = lastTriggered, !.triggerCount = triggerCount]

\* incrementOperatorStats / incrementWatcherTypeStats: stats[field] + 1 at
\* index.
incrementStats(file, index, field) ==
    [file EXCEPT ![index].stats[field] = @ + 1]

\* The fulfillment fingerprint: a digest of the canonical serialization of
\* the parameters, the config's keys sorted (the pairs as a set).
generateFulfillmentHash(params) ==
    [typeId |-> params.typeId,
     config |-> {params.config[i] : i \in 1..Len(params.config)},
     webhook |-> params.webhook,
     customerId |-> params.customerId]

getReceiptByHash(file, hash) == find(SelectSeq(file, LAMBDA x : x.fulfillmentHash = hash))

\* createReceipt's new record.
newReceipt(id, receipt, createdAt) ==
    [id |-> id, watcherId |-> receipt.watcherId, typeId |-> receipt.typeId,
     amount |-> receipt.amount, chain |-> receipt.chain, rail |-> receipt.rail,
     fulfillmentHash |-> receipt.fulfillmentHash, customerId |-> receipt.customerId,
     operatorId |-> receipt.operatorId, paymentId |-> receipt.paymentId,
     createdAt |-> createdAt]

\* The outcomes of fs.writeFile: TRUE written, FALSE it throws.
WriteOutcomes == IF failures < env.failures THEN {TRUE, FALSE} ELSE {TRUE}

\* The disk after a write with that outcome.
Disk(written) == failures' = IF written THEN failures ELSE failures + 1

\* ------------------------------------------------------------------ handlers

IdleReq ==
    [pc |-> "idle", body |-> Absent, customerId |-> "", fulfillmentHash |-> Absent,
     type |-> Absent, data |-> <<>>, watcher |-> Absent, payment |-> Absent,
     receipt |-> Absent, res |-> Absent, pre |-> Absent]

IdleCyc ==
    [pc |-> "idle", watchers |-> <<>>, i |-> 0, result |-> Absent, data |-> <<>>,
     results |-> [checked |-> 0, triggered |-> 0, errors |-> 0, skipped |-> 0],
     res |-> Absent]

\* The requests that have arrived, and those not answered yet.
Arrived ==
    Cardinality({r \in Creates : req[r].pc # "idle"})
    + Cardinality({c \in Cycles : cyc[c].pc # "idle"})

InFlight ==
    Cardinality({r \in Creates : req[r].pc \notin {"idle", "done"}})
    + Cardinality({c \in Cycles : cyc[c].pc \notin {"idle", "done"}})

\* A request may arrive (the server accepts requests while others await).
CanArrive == Arrived < env.requests /\ InFlight < env.inflight

\* The operators and watcher types registered before the first request: a
\* token-price type, a type without executorId, a type whose executor is
\* not registered, and a type whose operator is missing.
RegisteredOperators == <<Operator("o1")>>

RegisteredTypes ==
    << WatcherType("t1", "o1", "token-price", 10),
       WatcherType("t2", "o1", "", 5),
       WatcherType("t3", "o1", "custom", 7),
       WatcherType("t4", "o7", "token-price", 3) >>

InitStore(e) ==
    /\ env = e
    /\ failures = 0
    /\ operators = RegisteredOperators
    /\ types = RegisteredTypes
    /\ watchers = <<>>
    /\ payments = <<>>
    /\ receipts = <<>>
    /\ nextId = 1
    /\ now = 1
    /\ req = [r \in 1..e.requests |-> IdleReq]
    /\ cyc = [c \in 1..e.requests |-> IdleCyc]
    /\ posts = <<>>
    /\ upd = <<>>
    /\ executors = BuiltIn
    /\ reg = <<>>
    /\ evals = <<>>

\* Requests one after another, a disk that always writes.
Init == InitStore([requests |-> MaxRequests, inflight |-> 1, failures |-> 0])

\* res.status(status).json(...): the response ends the handler.
Respond(r, response) ==
    req' = [req EXCEPT ![r] =
                [IdleReq EXCEPT !.pc = "done", !.body = req[r].body,
                                !.customerId = req[r].customerId,
                                !.fulfillmentHash = req[r].fulfillmentHash,
                                !.pre = req[r].pre, !.res = Some(response)]]

\* The watcher object of a response: { id, typeId, status }.
reported(watcher) ==
    [id |-> watcher.id, typeId |-> watcher.typeId, status |-> watcher.status]

ErrorResponse(status, error) ==
    [status |-> status, idempotent |-> FALSE, watcherId |-> 0, watcher |-> Absent,
     receipt |-> Absent, payment |-> Absent, error |-> error]

\* PostWatchers that takes the parameters as they were sent, the config's
\* keys in insertion order, for the fingerprint.
PostWatchersInsertionOrder(r, body) ==
    /\ req[r].pc = "idle"
    /\ \A q \in 1..(r - 1) : req[q].pc # "idle"
    /\ CanArrive
    /\ LET customerId == IF body.customerId # "" THEN body.customerId
                         ELSE IF body.header # "" THEN body.header ELSE "anonymous"
           fulfillmentHash ==
               [typeId |-> body.typeId, config |-> body.config,
                webhook |-> body.webhook, customerId |-> customerId]
       IN  req' = [req EXCEPT ![r] =
                      [IdleReq EXCEPT !.pc = "getReceiptByHash", !.body = Some(body),
                                      !.customerId = customerId,
                                      !.fulfillmentHash = Some(fulfillmentHash),
                                      !.pre = Some(Store)]]
    /\ now' = now + 1
    /\ UNCHANGED <<files, nextId, cyc, posts, failures, env, upd, executors, reg, evals>>

\* POST /watchers arrives: the body is read, the fingerprint computed, and
\* the handler awaits store.getReceiptByHash.
PostWatchers(r, body) ==
    /\ req[r].pc = "idle"
    /\ \A q \in 1..(r - 1) : req[q].pc # "idle"
    /\ CanArrive
    /\ LET customerId == IF body.customerId # "" THEN body.customerId
                         ELSE IF body.header # "" THEN body.header ELSE "anonymous"
           fulfillmentHash ==
               generateFulfillmentHash([typeId |-> body.typeId, config |-> body.config,
                                        webhook |-> body.webhook, customerId |-> customerId])
       IN  req' = [req EXCEPT ![r] =
                      [IdleReq EXCEPT !.pc = "getReceiptByHash", !.body = Some(body),
                                      !.customerId = customerId,
                                      !.fulfillmentHash = Some(fulfillmentHash),
                                      !.pre = Some(Store)]]
    /\ now' = now + 1
    /\ UNCHANGED <<files, nextId, cyc, posts, failures, env, upd, executors, reg, evals>>

\* ExistingReceipt without the idempotency check: every request goes on to
\* create.
ExistingReceiptUnchecked(r) ==
    /\ req[r].pc = "getReceiptByHash"
    /\ req' = [req EXCEPT ![r].pc = "getWatcherType"]
    /\ UNCHANGED <<files, nextId, now, cyc, posts, failures, env, upd, executors, reg, evals>>

\* The receipt lookup returns: an existing receipt is replayed, else the
\* handler goes on to create.
ExistingReceipt(r) ==
    /\ req[r].pc = "getReceiptByHash"
    /\ LET existingReceipt == getReceiptByHash(receipts, req[r].fulfillmentHash[1])
       IN  IF existingReceipt # Absent
           THEN req' = [req EXCEPT ![r].pc = "getWatcher", ![r].receipt = existingReceipt]
           ELSE req' = [req EXCEPT ![r].pc = "getWatcherType"]
    /\ UNCHANGED <<files, nextId, now, cyc, posts, failures, env, upd, executors, reg, evals>>

\* IdempotentReplay that counts the replay as one more instance of the type.
IdempotentReplayCounted(r) ==
    /\ req[r].pc = "getWatcher"
    /\ LET existingReceipt == req[r].receipt[1]
           index == findIndex(types, existingReceipt.typeId)
       IN  /\ Respond(r, [status |-> 200, idempotent |-> TRUE,
                          watcherId |-> existingReceipt.watcherId,
                          watcher |-> Some([id |-> existingReceipt.watcherId]),
                          receipt |-> Some(existingReceipt), payment |-> Absent,
                          error |-> ""])
           /\ types' = incrementStats(types, index, "instances")
    /\ UNCHANGED <<operators, watchers, payments, receipts, nextId, now, cyc, posts,
                   failures, env, upd, executors, reg, evals>>

\* IdempotentReplay that replays only while the watcher is persisted: with
\* the watcher gone the request goes on to create.
IdempotentReplayIfPersisted(r) ==
    /\ req[r].pc = "getWatcher"
    /\ LET existingReceipt == req[r].receipt[1]
           existingWatcher == getWatcher(watchers, existingReceipt.watcherId)
       IN  IF existingWatcher # Absent
           THEN Respond(r, [status |-> 200, idempotent |-> TRUE,
                            watcherId |-> existingWatcher[1].id,
                            watcher |-> Some(reported(existingWatcher[1])),
                            receipt |-> Some(existingReceipt), payment |-> Absent,
                            error |-> ""])
           ELSE req' = [req EXCEPT ![r].pc = "getWatcherType", ![r].receipt = Absent]
    /\ UNCHANGED <<files, nextId, now, cyc, posts, failures, env, upd, executors, reg, evals>>

\* The replay: the existing receipt is returned with its watcher.
IdempotentReplay(r) ==
    /\ req[r].pc = "getWatcher"
    /\ LET existingReceipt == req[r].receipt[1]
           existingWatcher == getWatcher(watchers, existingReceipt.watcherId)
       IN  Respond(r, [status |-> 200, idempotent |-> TRUE,
                       watcherId |-> IF existingWatcher # Absent
                                     THEN existingWatcher[1].id
                                     ELSE existingReceipt.watcherId,
                       watcher |-> IF existingWatcher # Absent
                                   THEN Some(reported(existingWatcher[1]))
                                   ELSE Some([id |-> existingReceipt.watcherId]),
                       receipt |-> Some(existingReceipt), payment |-> Absent,
                       error |-> ""])
    /\ UNCHANGED <<files, nextId, now, cyc, posts, failures, env, upd, executors, reg, evals>>

\* The type lookup returns.
GetType(r) ==
    /\ req[r].pc = "getWatcherType"
    /\ LET type == getWatcherType(types, req[r].body[1].typeId)
       IN  IF type = Absent
           THEN Respond(r, ErrorResponse(404, "Watcher type not found"))
           ELSE req' = [req EXCEPT ![r].pc = "getOperator", ![r].type = type]
    /\ UNCHANGED <<files, nextId, now, cyc, posts, failures, env, upd, executors, reg, evals>>

\* The webhook check of the route.
validWebhook(webhook) == webhook # <<>> /\ startsWith(webhook, <<"h", "t", "t", "p">>)

\* The config check of the route: only a type with a registered executor
\* that has validate is validated.
validConfig(type, config) ==
    IF type.executorId # ""
       /\ getExecutor(type.executorId) # Absent
       /\ hasValidate(type.executorId)
    THEN validate(config).valid
    ELSE TRUE

\* Validate that counts the operator's watcher before it validates.
ValidateAfterCount(r) ==
    /\ req[r].pc = "getOperator"
    /\ LET type == req[r].type[1]
           body == req[r].body[1]
           index == findIndex(operators, type.operatorId)
       IN  IF index = -1
           THEN /\ Respond(r, ErrorResponse(500, "Operator not found"))
                /\ UNCHANGED operators
           ELSE /\ operators' = incrementStats(operators, index, "watchersCreated")
                /\ IF ~validWebhook(body.webhook)
                   THEN Respond(r, ErrorResponse(400, "Valid webhook URL required"))
                   ELSE IF ~validConfig(type, body.config)
                   THEN Respond(r, ErrorResponse(400, "Invalid config"))
                   ELSE req' = [req EXCEPT ![r].pc = "createWatcher"]
    /\ UNCHANGED <<types, watchers, payments, receipts, nextId, now, cyc, posts,
                   failures, env, upd, executors, reg, evals>>

\* The operator lookup returns; the webhook and the config are validated;
\* store.createWatcher is called and awaits its read.
Validate(r) ==
    /\ req[r].pc = "getOperator"
    /\ LET type == req[r].type[1]
           body == req[r].body[1]
           operator == getOperator(operators, type.operatorId)
       IN  IF operator = Absent
           THEN Respond(r, ErrorResponse(500, "Operator not found"))
           ELSE IF ~validWebhook(body.webhook)
           THEN Respond(r, ErrorResponse(400, "Valid webhook URL required"))
           ELSE IF ~validConfig(type, body.config)
           THEN Respond(r, ErrorResponse(400, "Invalid config"))
           ELSE req' = [req EXCEPT ![r].pc = "createWatcher"]
    /\ UNCHANGED <<files, nextId, now, cyc, posts, failures, env, upd, executors, reg, evals>>

\* The network the payment is recorded on (process.env.NETWORK or its default).
network == "eip155:8453"

\* routePayment with the two shares swapped.
routePaymentSwapped(watcher, type) ==
    [watcherId |-> watcher.id, operatorId |-> type.operatorId,
     customerId |-> watcher.customerId, amount |-> type.price,
     operatorShare |-> type.price * PLATFORM_FEE,
     platformShare |-> type.price * OPERATOR_SHARE,
     network |-> network]

\* The payment the route records for a watcher of a type.
routePayment(watcher, type) ==
    [watcherId |-> watcher.id, operatorId |-> type.operatorId,
     customerId |-> watcher.customerId, amount |-> type.price,
     operatorShare |-> type.price * OPERATOR_SHARE,
     platformShare |-> type.price * PLATFORM_FEE,
     network |-> network]

\* routeReceipt with the watcher's id as the payment's.
routeReceiptWrongPayment(watcher, type, payment, fulfillmentHash) ==
    [watcherId |-> watcher.id, typeId |-> type.id, amount |-> type.price,
     chain |-> network, rail |-> "x402", fulfillmentHash |-> fulfillmentHash,
     customerId |-> watcher.customerId, operatorId |-> type.operatorId,
     paymentId |-> watcher.id]

\* The receipt the route records.
routeReceipt(watcher, type, payment, fulfillmentHash) ==
    [watcherId |-> watcher.id, typeId |-> type.id, amount |-> type.price,
     chain |-> network, rail |-> "x402", fulfillmentHash |-> fulfillmentHash,
     customerId |-> watcher.customerId, operatorId |-> type.operatorId,
     paymentId |-> payment.id]

\* The catch of the route: a thrown store error is answered with 500.
Catch(r, message) == Respond(r, ErrorResponse(500, message))

\* createWatcher reads watchers.json, pushes the new watcher and awaits the
\* write.
CreateWatcherRead(r) ==
    /\ req[r].pc = "createWatcher"
    /\ LET body == req[r].body[1]
           w == newWatcher(generateId,
                           [typeId |-> body.typeId, operatorId |-> req[r].type[1].operatorId,
                            customerId |-> req[r].customerId, config |-> body.config,
                            webhook |-> body.webhook],
                           now)
       IN  req' = [req EXCEPT ![r].pc = "createWatcher.write",
                              ![r].data = Append(watchers, w),
                              ![r].watcher = Some(w)]
    /\ nextId' = nextId + 1
    /\ UNCHANGED <<files, now, cyc, posts, failures, env, upd, executors, reg, evals>>

\* createWatcher's write; store.createPayment is called and awaits its read.
CreateWatcherWrite(r) ==
    /\ req[r].pc = "createWatcher.write"
    /\ \E written \in WriteOutcomes :
          /\ Disk(written)
          /\ IF written
             THEN /\ watchers' = req[r].data
                  /\ req' = [req EXCEPT ![r].pc = "createPayment", ![r].data = <<>>]
             ELSE /\ Catch(r, "write failed")
                  /\ UNCHANGED watchers
    /\ UNCHANGED <<operators, types, payments, receipts, nextId, now, cyc, posts, env,
                   upd, executors, reg, evals>>

\* createPayment reads payments.json, pushes the payment and awaits the write.
CreatePaymentRead(r) ==
    /\ req[r].pc = "createPayment"
    /\ LET p == newPayment(generateId, routePayment(req[r].watcher[1], req[r].type[1]), now)
       IN  req' = [req EXCEPT ![r].pc = "createPayment.write",
                              ![r].data = Append(payments, p),
                              ![r].payment = Some(p)]
    /\ nextId' = nextId + 1
    /\ UNCHANGED <<files, now, cyc, posts, failures, env, upd, executors, reg, evals>>

\* createPayment's write; store.createReceipt is called.
CreatePaymentWrite(r) ==
    /\ req[r].pc = "createPayment.write"
    /\ \E written \in WriteOutcomes :
          /\ Disk(written)
          /\ IF written
             THEN /\ payments' = req[r].data
                  /\ req' = [req EXCEPT ![r].pc = "createReceipt", ![r].data = <<>>]
             ELSE /\ Catch(r, "write failed")
                  /\ UNCHANGED payments
    /\ UNCHANGED <<operators, types, watchers, receipts, nextId, now, cyc, posts, env,
                   upd, executors, reg, evals>>

\* createReceipt records the receipt under its fingerprint, which the
\* record store keeps unique: a second receipt for a fingerprint fails with
\* AlreadyExists.  store.incrementOperatorStats is called and awaits its read.
CreateReceipt(r) ==
    /\ req[r].pc = "createReceipt"
    /\ LET hash == req[r].fulfillmentHash[1]
           rc == newReceipt(generateId,
                            routeReceipt(req[r].watcher[1], req[r].type[1],
                                         req[r].payment[1], hash),
                            now)
       IN  IF getReceiptByHash(receipts, hash) # Absent
           THEN /\ Catch(r, "AlreadyExists")
                /\ UNCHANGED <<receipts, nextId, failures>>
           ELSE \E written \in WriteOutcomes :
                   /\ Disk(written)
                   /\ IF written
                      THEN /\ receipts' = Append(receipts, rc)
                           /\ nextId' = nextId + 1
                           /\ req' = [req EXCEPT ![r].pc = "incrementOperatorStats",
                                                 ![r].receipt = Some(rc)]
                      ELSE /\ Catch(r, "write failed")
                           /\ UNCHANGED <<receipts, nextId>>
    /\ UNCHANGED <<operators, types, watchers, payments, now, cyc, posts, env, upd,
                   executors, reg, evals>>

\* The 201 response of the route.
Created(r) ==
    Respond(r, [status |-> 201, idempotent |-> FALSE, watcherId |-> req[r].watcher[1].id,
                watcher |-> Some(reported(req[r].watcher[1])),
                receipt |-> req[r].receipt,
                payment |-> Some([amount |-> req[r].payment[1].amount,
                                  operatorShare |-> req[r].payment[1].operatorShare,
                                  platformShare |-> req[r].payment[1].platformShare]),
                error |-> ""])

\* incrementOperatorStats reads operators.json: an unknown operator returns
\* at once, else watchersCreated is incremented in the copy and the write
\* awaited.
CountWatcherRead(r) ==
    /\ req[r].pc = "incrementOperatorStats"
    /\ LET index == findIndex(operators, req[r].type[1].operatorId)
       IN  IF index = -1
           THEN req' = [req EXCEPT ![r].pc = "incrementWatcherTypeStats"]
           ELSE req' = [req EXCEPT ![r].pc = "incrementOperatorStats.write",
                                   ![r].data = incrementStats(operators, index,
                                                              "watchersCreated")]
    /\ UNCHANGED <<files, nextId, now, cyc, posts, failures, env, upd, executors, reg, evals>>

CountWatcherWrite(r) ==
    /\ req[r].pc = "incrementOperatorStats.write"
    /\ \E written \in WriteOutcomes :
          /\ Disk(written)
          /\ IF written
             THEN /\ operators' = req[r].data
                  /\ req' = [req EXCEPT ![r].pc = "incrementWatcherTypeStats", ![r].data = <<>>]
             ELSE /\ Catch(r, "write failed")
                  /\ UNCHANGED operators
    /\ UNCHANGED <<types, watchers, payments, receipts, nextId, now, cyc, posts, env,
                   upd, executors, reg, evals>>

\* incrementWatcherTypeStats reads watcher-types.json: an unknown type
\* returns at once (and the route answers 201), else instances is
\* incremented in the copy and the write awaited.
CountInstanceRead(r) ==
    /\ req[r].pc = "incrementWatcherTypeStats"
    /\ LET index == findIndex(types, req[r].body[1].typeId)
       IN  IF index = -1
           THEN Created(r)
           ELSE req' = [req EXCEPT ![r].pc = "incrementWatcherTypeStats.write",
                                   ![r].data = incrementStats(types, index, "instances")]
    /\ UNCHANGED <<files, nextId, now, cyc, posts, failures, env, upd, executors, reg, evals>>

\* The last write of a creation and the 201 response.
CountInstanceWrite(r) ==
    /\ req[r].pc = "incrementWatcherTypeStats.write"
    /\ \E written \in WriteOutcomes :
          /\ Disk(written)
          /\ IF written
             THEN /\ types' = req[r].data
                  /\ Created(r)
             ELSE /\ Catch(r, "write failed")
                  /\ UNCHANGED types
    /\ UNCHANGED <<operators, watchers, payments, receipts, nextId, now, cyc, posts, env,
                   upd, executors, reg, evals>>

\* One step of the r-th POST /watchers handler.
Create(r) ==
    \/ \E body \in Requests : PostWatchers(r, body)
    \/ ExistingReceipt(r)
    \/ IdempotentReplay(r)
    \/ GetType(r)
    \/ Validate(r)
    \/ CreateWatcherRead(r)
    \/ CreateWatcherWrite(r)
    \/ CreatePaymentRead(r)
    \/ CreatePaymentWrite(r)
    \/ CreateReceipt(r)
    \/ CountWatcherRead(r)
    \/ CountWatcherWrite(r)
    \/ CountInstanceRead(r)
    \/ CountInstanceWrite(r)

\* ------------------------------------------------------------------ token-price.js

\* String.prototype.toLowerCase / toUpperCase on the token symbols used.
toLowerCase(s) == IF s = "ETH" THEN "eth" ELSE s

toUpperCase(s) == IF s = "eth" THEN "ETH" ELSE s

\* TOKEN_IDS[tokenLower] || tokenLower
coinIdOf(tokenLower) == IF tokenLower = "eth" THEN "ethereum" ELSE tokenLower

\* What the price API answers to one fetch: the request is rejected, the
\* response is not OK, the response has no price for the coin, or a price.
ApiResponse(kind, price) == [kind |-> kind, price |-> price]

\* The prices the API reports: one below and one above the threshold of 3.
Prices == {2, 4}

ApiResponses ==
    {ApiResponse(k, 0) : k \in {"rejected", "not-ok", "no-price"}}
    \cup {ApiResponse("price", p) : p \in Prices}

\* tokenPriceExecutor.check throws on this response.
checkThrows(api) == api.kind # "price"

\* triggeredBy with comparisons that include the threshold.
triggeredByInclusive(config, price) ==
    IF Field(config, "direction") = Str("above")
    THEN price >= Field(config, "threshold").n
    ELSE price <= Field(config, "threshold").n

\* The comparison of tokenPriceExecutor.check.
triggeredBy(config, price) ==
    IF Field(config, "direction") = Str("above")
    THEN price > Field(config, "threshold").n
    ELSE price < Field(config, "threshold").n

\* tokenPriceExecutor.check's result on a response with a price.
check(config, api) ==
    LET tokenLower == toLowerCase(Field(config, "token").s)
    IN  [triggered |-> triggeredBy(config, api.price),
         data |-> [token |-> toUpperCase(Field(config, "token").s),
                   coinId |-> coinIdOf(tokenLower),
                   price |-> api.price,
                   currency |-> "USD",
                   threshold |-> Field(config, "threshold").n,
                   direction |-> Field(config, "direction").s]]

\* ------------------------------------------------------------------ POST /cron/check

\* What the webhook endpoint does with one POST: answers 2xx, answers with
\* an error status, or the request is rejected (fetch throws).
SinkOutcomes == {"ok", "http-error", "rejected"}

\* fetchThrows that also throws on an answer with an error status, as a
\* test of response.ok after fetch would.
fetchThrowsUnlessOk(outcome) == outcome # "ok"

\* fetch(watcher.webhook) throws on this outcome.
fetchThrows(outcome) == outcome = "rejected"

\* results.field++
Bump(results, field) == [results EXCEPT ![field] = @ + 1]

\* res.json({success: true, ...results, timestamp}) after the loop.
Summary(results) ==
    [status |-> 200, success |-> TRUE, checked |-> results.checked,
     triggered |-> results.triggered, errors |-> results.errors,
     skipped |-> results.skipped, timestamp |-> now]

\* The loop goes on with results: to the next watcher's type lookup, or,
\* past the last watcher, to the response.
Continue(c, results) ==
    IF cyc[c].i < Len(cyc[c].watchers)
    THEN cyc' = [cyc EXCEPT ![c].pc = "getWatcherType", ![c].i = @ + 1,
                            ![c].results = results, ![c].result = Absent,
                            ![c].data = <<>>]
    ELSE cyc' = [cyc EXCEPT ![c] =
                    [IdleCyc EXCEPT !.pc = "done", !.watchers = cyc[c].watchers,
                                    !.results = results,
                                    !.res = Some(Summary(results))]]

\* CatchWatcher without the try inside the loop: the error reaches the
\* catch around the loop, which answers 500.
AbortCycle(c) ==
    cyc' = [cyc EXCEPT ![c] =
               [IdleCyc EXCEPT !.pc = "done", !.watchers = cyc[c].watchers,
                               !.results = cyc[c].results,
                               !.res = Some([Summary(cyc[c].results) EXCEPT
                                                !.status = 500, !.success = FALSE])]]

\* catch (e) of the loop body, and catch (webhookError): the error is
\* counted and the loop goes on.
CatchWatcher(c) == Continue(c, Bump(cyc[c].results, "errors"))

\* The watcher the loop is at (the copy read by getWatchers).
Watcher(c) == cyc[c].watchers[cyc[c].i]

\* POST /cron/check arrives and awaits store.getWatchers.
CronCheck(c) ==
    /\ cyc[c].pc = "idle"
    /\ \A q \in 1..(c - 1) : cyc[q].pc # "idle"
    /\ CanArrive
    /\ cyc' = [cyc EXCEPT ![c].pc = "getWatchers"]
    /\ now' = now + 1
    /\ UNCHANGED <<files, nextId, req, posts, failures, env, upd, executors, reg, evals>>

\* getWatchers({status: 'active'}) returns; the loop starts.
Scan(c) ==
    /\ cyc[c].pc = "getWatchers"
    /\ LET active == getWatchers(watchers, "active")
       IN  IF active = <<>>
           THEN cyc' = [cyc EXCEPT ![c].pc = "done",
                                   ![c].res = Some(Summary(cyc[c].results))]
           ELSE cyc' = [cyc EXCEPT ![c].pc = "getWatcherType", ![c].watchers = active,
                                   ![c].i = 1]
    /\ UNCHANGED <<files, nextId, now, req, posts, failures, env, upd, executors, reg, evals>>

\* Resolve that takes an executorId that is not registered for an executor:
\* the watcher is counted as checked and check is called.
ResolveUnregistered(c) ==
    /\ cyc[c].pc = "getWatcherType"
    /\ LET type == getWatcherType(types, Watcher(c).typeId)
       IN  IF type = Absent \/ type[1].executorId = ""
           THEN Continue(c, Bump(cyc[c].results, "skipped"))
           ELSE cyc' = [cyc EXCEPT ![c].pc = "check",
                                   ![c].results = Bump(cyc[c].results, "checked")]
    /\ UNCHANGED <<files, nextId, now, req, posts, failures, env, upd, executors, reg, evals>>

\* The type lookup returns: without type, executorId or registered
\* executor the watcher is skipped; else it is counted as checked and the
\* executor's check is called.
Resolve(c) ==
    /\ cyc[c].pc = "getWatcherType"
    /\ LET type == getWatcherType(types, Watcher(c).typeId)
       IN  IF type = Absent \/ type[1].executorId = ""
           THEN Continue(c, Bump(cyc[c].results, "skipped"))
           ELSE IF getExecutor(type[1].executorId) = Absent
           THEN Continue(c, Bump(cyc[c].results, "skipped"))
           ELSE cyc' = [cyc EXCEPT ![c].pc = "check",
                                   ![c].results = Bump(cyc[c].results, "checked")]
    /\ UNCHANGED <<files, nextId, now, req, posts, failures, env, upd, executors, reg, evals>>

\* Check that records the time of the check also when check throws.
CheckRecorded(c, api) ==
    /\ cyc[c].pc = "check"
    /\ IF checkThrows(api)
       THEN /\ CatchWatcher(c)
            /\ watchers' = [i \in 1..Len(watchers) |->
                               IF watchers[i].id = Watcher(c).id
                               THEN [watchers[i] EXCEPT !.lastChecked = now]
                               ELSE watchers[i]]
       ELSE /\ cyc' = [cyc EXCEPT ![c].pc = "updateWatcher.checked",
                                  ![c].result = Some(check(Watcher(c).config, api))]
            /\ UNCHANGED watchers
    /\ UNCHANGED <<operators, types, payments, receipts, nextId, now, req, posts,
                   failures, env, upd, executors, reg, evals>>

\* executor.check returns or throws; on a result store.updateWatcher is
\* called and awaits its read.
Check(c, api) ==
    /\ cyc[c].pc = "check"
    /\ IF checkThrows(api)
       THEN CatchWatcher(c)
       ELSE cyc' = [cyc EXCEPT ![c].pc = "updateWatcher.checked",
                               ![c].result = Some(check(Watcher(c).config, api))]
    /\ UNCHANGED <<files, nextId, now, req, posts, failures, env, upd, executors, reg, evals>>

\* AfterChecked that delivers only the first time a watcher triggers.
AfterCheckedOnce(c, me) ==
    IF me.result[1].triggered /\ Watcher(c).triggerCount = 0
    THEN cyc' = [cyc EXCEPT ![c] = [me EXCEPT !.pc = "fetch", !.data = <<>>]]
    ELSE Continue(c, me.results)

\* After the check fields are updated: a triggered watcher's webhook is
\* fetched, else the loop goes on.
AfterChecked(c, me) ==
    IF me.result[1].triggered
    THEN cyc' = [cyc EXCEPT ![c] = [me EXCEPT !.pc = "fetch", !.data = <<>>]]
    ELSE Continue(c, me.results)

\* UpdateCheckedRead that records the check only of a triggered watcher.
UpdateCheckedReadIfTriggered(c) ==
    /\ cyc[c].pc = "updateWatcher.checked"
    /\ LET index == findIndex(watchers, Watcher(c).id)
       IN  IF index = -1 \/ ~cyc[c].result[1].triggered
           THEN AfterChecked(c, cyc[c])
           ELSE cyc' = [cyc EXCEPT ![c].pc = "updateWatcher.checked.write",
                                   ![c].data =
                                       [watchers EXCEPT ![index] =
                                           mergeChecked(@, now, Some(cyc[c].result[1].data))]]
    /\ UNCHANGED <<files, nextId, now, req, posts, failures, env, upd, executors, reg, evals>>

\* updateWatcher(id, {lastChecked, lastCheckResult}) reads watchers.json: an
\* unknown id returns null at once, else the record is merged in the copy
\* and the write awaited.
UpdateCheckedRead(c) ==
    /\ cyc[c].pc = "updateWatcher.checked"
    /\ LET index == findIndex(watchers, Watcher(c).id)
       IN  IF index = -1
           THEN AfterChecked(c, cyc[c])
           ELSE cyc' = [cyc EXCEPT ![c].pc = "updateWatcher.checked.write",
                                   ![c].data =
                                       [watchers EXCEPT ![index] =
                                           mergeChecked(@, now, Some(cyc[c].result[1].data))]]
    /\ UNCHANGED <<files, nextId, now, req, posts, failures, env, upd, executors, reg, evals>>

UpdateCheckedWrite(c) ==
    /\ cyc[c].pc = "updateWatcher.checked.write"
    /\ \E written \in WriteOutcomes :
          /\ Disk(written)
          /\ IF written
             THEN /\ watchers' = cyc[c].data
                  /\ AfterChecked(c, cyc[c])
             ELSE /\ CatchWatcher(c)
                  /\ UNCHANGED watchers
    /\ UNCHANGED <<operators, types, payments, receipts, nextId, now, req, posts, env,
                   upd, executors, reg, evals>>

\* Deliver without the try around fetch: a rejected POST is not noticed and
\* the trigger is recorded.
DeliverUnnoticed(c, outcome) ==
    /\ cyc[c].pc = "fetch"
    /\ posts' = Append(posts, [cycle |-> c, watcherId |-> Watcher(c).id,
                               typeId |-> Watcher(c).typeId,
                               data |-> cyc[c].result[1].data,
                               timestamp |-> now, outcome |-> outcome])
    /\ cyc' = [cyc EXCEPT ![c].pc = "updateWatcher.triggered"]
    /\ UNCHANGED <<files, nextId, now, req, failures, env, upd, executors, reg, evals>>

\* The webhook POST: sent, and answered or rejected.  After an answer
\* store.updateWatcher is called and awaits its read.
Deliver(c, outcome) ==
    /\ cyc[c].pc = "fetch"
    /\ posts' = Append(posts, [cycle |-> c, watcherId |-> Watcher(c).id,
                               typeId |-> Watcher(c).typeId,
                               data |-> cyc[c].result[1].data,
                               timestamp |-> now, outcome |-> outcome])
    /\ IF fetchThrows(outcome)
       THEN CatchWatcher(c)
       ELSE cyc' = [cyc EXCEPT ![c].pc = "updateWatcher.triggered"]
    /\ UNCHANGED <<files, nextId, now, req, failures, env, upd, executors, reg, evals>>

\* updateWatcher(id, {lastTriggered, triggerCount: watcher.triggerCount + 1})
\* reads watchers.json; the count is that of the copy read by getWatchers.
UpdateTriggeredRead(c) ==
    /\ cyc[c].pc = "updateWatcher.triggered"
    /\ LET index == findIndex(watchers, Watcher(c).id)
       IN  IF index = -1
           THEN cyc' = [cyc EXCEPT ![c].pc = "incrementOperatorStats"]
           ELSE cyc' = [cyc EXCEPT ![c].pc = "updateWatcher.triggered.write",
                                   ![c].data =
                                       [watchers EXCEPT ![index] =
                                           mergeTriggered(@, now, Watcher(c).triggerCount + 1)]]
    /\ UNCHANGED <<files, nextId, now, req, posts, failures, env, upd, executors, reg, evals>>

UpdateTriggeredWrite(c) ==
    /\ cyc[c].pc = "updateWatcher.triggered.write"
    /\ \E written \in WriteOutcomes :
          /\ Disk(written)
          /\ IF written
             THEN /\ watchers' = cyc[c].data
                  /\ cyc' = [cyc EXCEPT ![c].pc = "incrementOperatorStats", ![c].data = <<>>]
             ELSE /\ CatchWatcher(c)
                  /\ UNCHANGED watchers
    /\ UNCHANGED <<operators, types, payments, receipts, nextId, now, req, posts, env,
                   upd, executors, reg, evals>>

\* incrementOperatorStats(watcher.operatorId, 'totalTriggers') reads.
CountTriggerRead(c) ==
    /\ cyc[c].pc = "incrementOperatorStats"
    /\ LET index == findIndex(operators, Watcher(c).operatorId)
       IN  IF index = -1
           THEN cyc' = [cyc EXCEPT ![c].pc = "incrementWatcherTypeStats"]
           ELSE cyc' = [cyc EXCEPT ![c].pc = "incrementOperatorStats.write",
                                   ![c].data = incrementStats(operators, index,
                                                              "totalTriggers")]
    /\ UNCHANGED <<files, nextId, now, req, posts, failures, env, upd, executors, reg, evals>>

CountTriggerWrite(c) ==
    /\ cyc[c].pc = "incrementOperatorStats.write"
    /\ \E written \in WriteOutcomes :
          /\ Disk(written)
          /\ IF written
             THEN /\ operators' = cyc[c].data
                  /\ cyc' = [cyc EXCEPT ![c].pc = "incrementWatcherTypeStats", ![c].data = <<>>]
             ELSE /\ CatchWatcher(c)
                  /\ UNCHANGED operators
    /\ UNCHANGED <<types, watchers, payments, receipts, nextId, now, req, posts, env,
                   upd, executors, reg, evals>>

\* incrementWatcherTypeStats(watcher.typeId, 'triggers') reads; an unknown
\* type returns at once and the watcher is counted as triggered.
CountTypeTriggerRead(c) ==
    /\ cyc[c].pc = "incrementWatcherTypeStats"
    /\ LET index == findIndex(types, Watcher(c).typeId)
       IN  IF index = -1
           THEN Continue(c, Bump(cyc[c].results, "triggered"))
           ELSE cyc' = [cyc EXCEPT ![c].pc = "incrementWatcherTypeStats.write",
                                   ![c].data = incrementStats(types, index, "triggers")]
    /\ UNCHANGED <<files, nextId, now, req, posts, failures, env, upd, executors, reg, evals>>

\* The last write for a triggered watcher; it is counted as triggered.
CountTypeTriggerWrite(c) ==
    /\ cyc[c].pc = "incrementWatcherTypeStats.write"
    /\ \E written \in WriteOutcomes :
          /\ Disk(written)
          /\ IF written
             THEN /\ types' = cyc[c].data
                  /\ Continue(c, Bump(cyc[c].results, "triggered"))
             ELSE /\ CatchWatcher(c)
                  /\ UNCHANGED types
    /\ UNCHANGED <<operators, watchers, payments, receipts, nextId, now, req, posts, env,
                   upd, executors, reg, evals>>

\* One step of the c-th POST /cron/check handler.
Cron(c) ==
    \/ CronCheck(c)
    \/ Scan(c)
    \/ Resolve(c)
    \/ \E api \in ApiResponses : Check(c, api)
    \/ UpdateCheckedRead(c)
    \/ UpdateCheckedWrite(c)
    \/ \E outcome \in SinkOutcomes : Deliver(c, outcome)
    \/ UpdateTriggeredRead(c)
    \/ UpdateTriggeredWrite(c)
    \/ CountTriggerRead(c)
    \/ CountTriggerWrite(c)
    \/ CountTypeTriggerRead(c)
    \/ CountTypeTriggerWrite(c)

Next ==
    \/ \E r \in Creates : Create(r)
    \/ \E c \in Cycles : Cron(c)

Spec == Init /\ [][Next]_vars

\* Requests one after another, on a disk whose writes may fail.
InitFaults == InitStore([requests |-> MaxRequests, inflight |-> 1, failures |-> MaxFailures])

SpecFaults == InitFaults /\ [][Next]_vars

\* Creation requests that arrive while others are awaiting, a disk that
\* always writes.
InitOverlap ==
    InitStore([requests |-> MaxOverlapped, inflight |-> MaxOverlapped, failures |-> 0])

NextCreate == \E r \in Creates : Create(r)

SpecOverlap == InitOverlap /\ [][NextCreate]_vars

\* ------------------------------------------------------------------ status changes

\* A status change is store.updateWatcher(id, {status}), called from outside
\* the two routes while they serve requests.

\* Status-change calls made in one behaviour.
MaxStatusChanges == 1

\* The statuses a watcher is moved to (models.js: active, paused, expired).
Statuses == {"paused", "expired"}

IdleUpd == [pc |-> "idle", data |-> <<>>]

Updates == DOMAIN upd

\* updateWatcher's merge of the status.
mergeStatus(w, status) == [w EXCEPT !.status = status]

\* updateWatcher(id, {status}) reads watchers.json: an unknown id returns
\* null at once, else the record is merged in the copy and the write awaited.
UpdateStatusRead(u, id, status) ==
    /\ upd[u].pc = "idle"
    /\ \A q \in 1..(u - 1) : upd[q].pc # "idle"
    /\ LET index == findIndex(watchers, id)
       IN  IF index = -1
           THEN upd' = [upd EXCEPT ![u].pc = "done"]
           ELSE upd' = [upd EXCEPT ![u].pc = "updateWatcher.write",
                                   ![u].data =
                                       [watchers EXCEPT ![index] = mergeStatus(@, status)]]
    /\ UNCHANGED <<files, nextId, now, req, cyc, posts, failures, env, executors, reg, evals>>

UpdateStatusWrite(u) ==
    /\ upd[u].pc = "updateWatcher.write"
    /\ \E written \in WriteOutcomes :
          /\ Disk(written)
          /\ watchers' = IF written THEN upd[u].data ELSE watchers
          /\ upd' = [upd EXCEPT ![u] = [IdleUpd EXCEPT !.pc = "done"]]
    /\ UNCHANGED <<operators, types, payments, receipts, nextId, now, req, cyc, posts, env,
                   executors, reg, evals>>

\* One step of the u-th status change.
UpdateStatus(u) ==
    \/ \E i \in 1..Len(watchers), status \in Statuses :
          UpdateStatusRead(u, watchers[i].id, status)
    \/ UpdateStatusWrite(u)

\* ------------------------------------------------------------------ deletions

\* A deletion is store.deleteWatcher(id), called from outside the two routes
\* while they serve requests.

\* Deletions made in one behaviour.
MaxDeletions == 1

\* data.watchers.splice(index, 1): the array without its index-th element.
splice(arr, index) == SubSeq(arr, 1, index - 1) \o SubSeq(arr, index + 1, Len(arr))

\* deleteWatcher(id) reads watchers.json: an unknown id returns false at
\* once, else the record is removed from the copy and the write awaited.
DeleteWatcherRead(u, id) ==
    /\ upd[u].pc = "idle"
    /\ \A q \in 1..(u - 1) : upd[q].pc # "idle"
    /\ LET index == findIndex(watchers, id)
       IN  IF index = -1
           THEN upd' = [upd EXCEPT ![u].pc = "done"]
           ELSE upd' = [upd EXCEPT ![u].pc = "deleteWatcher.write",
                                   ![u].data = splice(watchers, index)]
    /\ UNCHANGED <<files, nextId, now, req, cyc, posts, failures, env, executors, reg, evals>>

DeleteWatcherWrite(u) ==
    /\ upd[u].pc = "deleteWatcher.write"
    /\ \E written \in WriteOutcomes :
          /\ Disk(written)
          /\ watchers' = IF written THEN upd[u].data ELSE watchers
          /\ upd' = [upd EXCEPT ![u] = [IdleUpd EXCEPT !.pc = "done"]]
    /\ UNCHANGED <<operators, types, payments, receipts, nextId, now, req, cyc, posts, env,
                   executors, reg, evals>>

\* The ids deleteWatcher is called with: those handed out so far, whether
\* or not a watcher has them.
DeletedIds == 1..(nextId - 1)

\* One step of the u-th deletion.
DeleteWatcher(u) ==
    \/ \E id \in DeletedIds : DeleteWatcherRead(u, id)
    \/ DeleteWatcherWrite(u)

\* ------------------------------------------------------------------ a store in use

\* The store after the first request of Requests was served: its watcher,
\* payment and receipt, and the two counters.
FirstWatcher ==
    newWatcher(1, [typeId |-> "t1", operatorId |-> "o1", customerId |-> "alice",
                   config |-> CfgAbove, webhook |-> HookOk], 2)

FirstPayment == newPayment(2, routePayment(FirstWatcher, RegisteredTypes[1]), 2)

FirstReceipt ==
    newReceipt(3, routeReceipt(FirstWatcher, RegisteredTypes[1], FirstPayment,
                               generateFulfillmentHash(
                                   [typeId |-> "t1", config |-> CfgAbove,
                                    webhook |-> HookOk, customerId |-> "alice"])), 2)

\* The store in use, before the requests and status changes of a behaviour:
\* creations of them POST /watchers, updates of them status changes.
InitInUse(e, creations, updates) ==
    /\ env = e
    /\ failures = 0
    /\ operators = incrementStats(RegisteredOperators, 1, "watchersCreated")
    /\ types = incrementStats(RegisteredTypes, 1, "instances")
    /\ watchers = <<FirstWatcher>>
    /\ payments = <<FirstPayment>>
    /\ receipts = <<FirstReceipt>>
    /\ nextId = 4
    /\ now = 2
    /\ req = [r \in 1..creations |-> IdleReq]
    /\ cyc = [c \in 1..e.requests |-> IdleCyc]
    /\ posts = <<>>
    /\ upd = [u \in 1..updates |-> IdleUpd]
    /\ executors = BuiltIn
    /\ reg = <<>>
    /\ evals = <<>>

\* Creations in one behaviour in which cycles and creations overlap.
MaxCreations == 1

\* Cycles that overlap with each other and with creations, on a store in
\* use and a disk that always writes.
InitConcurrent ==
    InitInUse([requests |-> MaxOverlapped, inflight |-> MaxOverlapped, failures |-> 0],
              MaxCreations, 0)

SpecConcurrent == InitConcurrent /\ [][Next]_vars

\* Cycles that overlap with each other and with status changes.
InitLifecycle ==
    InitInUse([requests |-> MaxOverlapped, inflight |-> MaxOverlapped, failures |-> 0],
              0, MaxStatusChanges)

NextLifecycle ==
    \/ \E c \in Cycles : Cron(c)
    \/ \E u \in Updates : UpdateStatus(u)

SpecLifecycle == InitLifecycle /\ [][NextLifecycle]_vars

\* Creation requests one after another on a store in use, with deletions
\* made while they are served, on a disk that always writes.
InitRemoval ==
    InitInUse([requests |-> MaxRequests, inflight |-> 1, failures |-> 0],
              MaxRequests, MaxDeletions)

NextRemoval ==
    \/ \E r \in Creates : Create(r)
    \/ \E u \in Updates : DeleteWatcher(u)

SpecRemoval == InitRemoval /\ [][NextRemoval]_vars

\* ------------------------------------------------------------------ calls never answered

\* The price API never answers executor.check's fetch: its promise never
\* settles and the handler is never resumed.
CheckHangs(c) ==
    /\ cyc[c].pc = "check"
    /\ cyc' = [cyc EXCEPT ![c].pc = "check.pending"]
    /\ UNCHANGED <<files, nextId, now, req, posts, failures, env, upd, executors, reg, evals>>

\* The webhook endpoint never answers the POST.
DeliverHangs(c) ==
    /\ cyc[c].pc = "fetch"
    /\ posts' = Append(posts, [cycle |-> c, watcherId |-> Watcher(c).id,
                               typeId |-> Watcher(c).typeId,
                               data |-> cyc[c].result[1].data,
                               timestamp |-> now, outcome |-> "pending"])
    /\ cyc' = [cyc EXCEPT ![c].pc = "fetch.pending"]
    /\ UNCHANGED <<files, nextId, now, req, failures, env, upd, executors, reg, evals>>

\* Cycles one after another on a store in use, with external calls that
\* may never be answered.
InitPending ==
    InitInUse([requests |-> MaxRequests, inflight |-> 1, failures |-> 0], 0, 0)

NextPending ==
    \/ \E c \in Cycles : Cron(c)
    \/ \E c \in Cycles : CheckHangs(c)
    \/ \E c \in Cycles : DeliverHangs(c)

\* Node's event loop resumes a handler whose awaited call has settled: a
\* step that can be taken is taken.
SpecPending == InitPending /\ [][NextPending]_vars /\ WF_vars(NextPending)

\* ------------------------------------------------------------------ registerExecutor

\* registerExecutor calls made in one behaviour.
MaxRegistrations == 2

\* The ids registered: a new id and the id of a built-in executor.
ExecutorIds == {"custom", "token-price"}

\* The executor objects registered: every combination of capabilities.
Executors ==
    {Executor(c, d, v) : c \in Capabilities, d \in Capabilities,
                         v \in {"function", "undefined"}}

\* One call of registerExecutor(id, executor).
RegisterExecutor(id, executor) ==
    /\ Len(reg) < MaxRegistrations
    /\ LET call == registerExecutor(executors, id, executor)
       IN  /\ executors' = call.executors
           /\ reg' = Append(reg, [id |-> id, executor |-> executor,
                                  thrown |-> call.thrown])
    /\ UNCHANGED <<files, nextId, now, req, cyc, posts, failures, env, upd, evals>>

InitRegistry == InitStore([requests |-> 0, inflight |-> 0, failures |-> 0])

NextRegistry == \E id \in ExecutorIds, executor \in Executors : RegisterExecutor(id, executor)

SpecRegistry == InitRegistry /\ [][NextRegistry]_vars

\* ------------------------------------------------------------------ check on its own

\* Calls of tokenPriceExecutor.check made in one behaviour.
MaxEvaluations == 2

\* The directions check is called with: check does not validate its config,
\* so any string may arrive.
Directions == {"above", "below", "sideways"}

\* The configs check is called with, all with a threshold of 3.
CheckConfigs ==
    {<< <<"token", Str("ETH")>>, <<"threshold", Num(3)>>, <<"direction", Str(d)>> >> :
        d \in Directions}

\* What the price API answers: as ApiResponses, with prices below, at and
\* above the threshold.
CheckResponses ==
    {ApiResponse(k, 0) : k \in {"rejected", "not-ok", "no-price"}}
    \cup {ApiResponse("price", p) : p \in {2, 3, 4}}

\* One call of tokenPriceExecutor.check(config), the price API answering
\* api: it throws or returns its result.
Evaluate(config, api) ==
    /\ Len(evals) < MaxEvaluations
    /\ evals' = Append(evals, [config |-> config, api |-> api,
                               thrown |-> checkThrows(api),
                               result |-> IF checkThrows(api)
                                          THEN Absent
                                          ELSE Some(check(config, api))])
    /\ UNCHANGED <<files, nextId, now, req, cyc, posts, failures, env, upd, executors, reg>>

InitEvaluate == InitStore([requests |-> 0, inflight |-> 0, failures |-> 0])

NextEvaluate == \E config \in CheckConfigs, api \in CheckResponses : Evaluate(config, api)

SpecEvaluate == InitEvaluate /\ [][NextEvaluate]_vars

\* ------------------------------------------------------------------ properties

\* The creation parameters (typeId, config, webhook, customerId) of request r.
Params(r) ==
    [typeId |-> req[r].body[1].typeId, config |-> req[r].body[1].config,
     webhook |-> req[r].body[1].webhook, customerId |-> req[r].customerId]

\* The creation parameters a persisted watcher was created with.
ParamsOf(w) ==
    [typeId |-> w.typeId, config |-> w.config, webhook |-> w.webhook,
     customerId |-> w.customerId]

\* A request that passes every check of the route against the registered
\* types and operators.
ValidParams(p) ==
    /\ \E i \in 1..Len(types) :
          /\ types[i].id = p.typeId
          /\ \E j \in 1..Len(operators) : operators[j].id = types[i].operatorId
          /\ types[i].executorId = "token-price" =>
                /\ Field(p.config, "token").kind = "string"
                /\ Field(p.config, "threshold").kind = "number"
                /\ Field(p.config, "direction").s \in {"above", "below"}
    /\ p.webhook \in {HookOk, HookHttpish}

\* The payments persisted for parameters p answered with watcher id: those
\* of that watcher and those of any watcher created with p.
PaymentsFor(p, id) ==
    {i \in 1..Len(payments) :
        \/ payments[i].watcherId = id
        \/ \E j \in 1..Len(watchers) :
              watchers[j].id = payments[i].watcherId /\ ParamsOf(watchers[j]) = p}

\* Request r has been answered.
Answered(r) == req[r].pc = "done"

\* Request r is answered in this step.
Answers(r) == req[r].pc \notin {"idle", "done"} /\ req'[r].pc = "done"

\* C1: two valid creation requests with identical parameters, one after the
\* other, are both answered with success, with the same watcher id and the
\* same receipt.fulfillmentHash, and exactly one payment is persisted for
\* the parameters.
C1_IdempotentCreation ==
    \A r1, r2 \in Creates :
        (r1 < r2 /\ Answered(r1) /\ Answered(r2)
         /\ Params(r1) = Params(r2) /\ ValidParams(Params(r1)))
        => /\ req[r1].res[1].status \in {200, 201}
           /\ req[r2].res[1].status \in {200, 201}
           /\ req[r2].res[1].watcherId = req[r1].res[1].watcherId
           /\ req[r2].res[1].receipt[1].fulfillmentHash
                 = req[r1].res[1].receipt[1].fulfillmentHash
           /\ Cardinality(PaymentsFor(Params(r1), req[r1].res[1].watcherId)) = 1

\* Two answered requests with identical valid parameters, the second a replay.
C1_Witness ==
    \E r1, r2 \in Creates :
        /\ r1 < r2 /\ Answered(r1) /\ Answered(r2)
        /\ Params(r1) = Params(r2) /\ ValidParams(Params(r1))
        /\ req[r1].res[1].status = 201
        /\ req[r2].res[1].status = 200
        /\ req[r2].res[1].idempotent

\* The fingerprint of the parameters a persisted watcher was created with.
Fingerprint(w) == generateFulfillmentHash(ParamsOf(w))

\* C2: under any interleaving of overlapping creation requests there is at
\* most one receipt per fulfillmentHash, and requests with identical
\* parameters never produce two watchers or two payments.
C2_OneCreationPerFingerprint ==
    /\ \A i, j \in 1..Len(receipts) :
          i # j => receipts[i].fulfillmentHash # receipts[j].fulfillmentHash
    /\ \A i, j \in 1..Len(watchers) :
          i # j => Fingerprint(watchers[i]) # Fingerprint(watchers[j])
    /\ \A i, j \in 1..Len(payments) :
          i # j => ~(\E a, b \in 1..Len(watchers) :
                        /\ watchers[a].id = payments[i].watcherId
                        /\ watchers[b].id = payments[j].watcherId
                        /\ Fingerprint(watchers[a]) = Fingerprint(watchers[b]))

\* The receipt recorded under request r's fingerprint when r arrived.
ReceiptAtArrival(r) ==
    SelectSeq(req[r].pre[1].receipts,
              LAMBDA x : x.fulfillmentHash = req[r].fulfillmentHash[1])

\* C3: a creation request that finds a receipt for its fingerprint answers
\* with that receipt, flagged idempotent, and leaves every persisted record
\* (watchers, payments, receipts, operator and type stats) as it was when
\* the request arrived.
C3_ReplayHasNoSideEffect ==
    [][\A r \in Creates :
          (Answers(r) /\ ReceiptAtArrival(r) # <<>>)
          => /\ req'[r].res[1].status = 200
             /\ req'[r].res[1].idempotent
             /\ req'[r].res[1].receipt = <<ReceiptAtArrival(r)[1]>>
             /\ operators' = req[r].pre[1].operators
             /\ types' = req[r].pre[1].types
             /\ watchers' = req[r].pre[1].watchers
             /\ payments' = req[r].pre[1].payments
             /\ receipts' = req[r].pre[1].receipts]_vars

\* A request answered as a replay of a receipt that existed when it arrived.
C3_Witness ==
    \E r \in Creates :
        /\ Answered(r)
        /\ ReceiptAtArrival(r) # <<>>
        /\ req[r].res[1].idempotent

\* The answers of the route to a client input error or a missing operator.
Rejection(res) ==
    \/ res.status \in {400, 404}
    \/ res.status = 500 /\ res.error = "Operator not found"

\* C4: a creation request rejected for an unknown type, a malformed
\* webhook, a failed config validation or a missing operator leaves every
\* persisted record as it was when the request arrived.
C4_RejectionHasNoSideEffect ==
    [][\A r \in Creates :
          (Answers(r) /\ Rejection(req'[r].res[1]))
          => /\ operators' = req[r].pre[1].operators
             /\ types' = req[r].pre[1].types
             /\ watchers' = req[r].pre[1].watchers
             /\ payments' = req[r].pre[1].payments
             /\ receipts' = req[r].pre[1].receipts]_vars

\* Each kind of rejection has been answered: unknown type, missing
\* operator, malformed webhook, invalid config.
C4_Witness ==
    /\ \E r \in Creates : Answered(r) /\ req[r].res[1].status = 404
    /\ \E r \in Creates : Answered(r) /\ req[r].res[1].status = 400
    /\ \E r \in Creates : Answered(r) /\ req[r].res[1].error = "Operator not found"

\* The records of a file with that id.
WithId(file, id) == SelectSeq(file, LAMBDA x : x.id = id)

\* C5: a creation answered 201 has appended exactly one watcher (active,
\* triggerCount 0, with the request's parameters), exactly one payment and
\* exactly one receipt that carries the request's fulfillmentHash and
\* refers to that watcher and that payment, and has incremented the
\* operator's watchersCreated and the type's instances by exactly 1.
C5_CreationPersistsOneOfEach ==
    [][\A r \in Creates :
          (Answers(r) /\ req'[r].res[1].status = 201)
          => LET pre == req[r].pre[1]
                 w == watchers'[Len(watchers')]
                 p == payments'[Len(payments')]
                 rc == receipts'[Len(receipts')]
             IN  /\ Len(watchers') = Len(pre.watchers) + 1
                 /\ SubSeq(watchers', 1, Len(pre.watchers)) = pre.watchers
                 /\ w.id = req'[r].res[1].watcherId
                 /\ WithId(pre.watchers, w.id) = <<>>
                 /\ w.status = "active" /\ w.triggerCount = 0
                 /\ ParamsOf(w) = Params(r)
                 /\ Len(payments') = Len(pre.payments) + 1
                 /\ SubSeq(payments', 1, Len(pre.payments)) = pre.payments
                 /\ p.watcherId = w.id
                 /\ Len(receipts') = Len(pre.receipts) + 1
                 /\ SubSeq(receipts', 1, Len(pre.receipts)) = pre.receipts
                 /\ rc.fulfillmentHash = req[r].fulfillmentHash[1]
                 /\ rc.watcherId = w.id /\ rc.paymentId = p.id
                 /\ req'[r].res[1].receipt = <<rc>>
                 /\ Len(operators') = Len(pre.operators)
                 /\ \A j \in 1..Len(operators') :
                       /\ operators'[j].id = pre.operators[j].id
                       /\ operators'[j].stats.watchersCreated
                             = pre.operators[j].stats.watchersCreated
                               + (IF operators'[j].id = w.operatorId THEN 1 ELSE 0)
                 /\ Len(types') = Len(pre.types)
                 /\ \A j \in 1..Len(types') :
                       /\ types'[j].id = pre.types[j].id
                       /\ types'[j].stats.instances
                             = pre.types[j].stats.instances
                               + (IF types'[j].id = w.typeId THEN 1 ELSE 0)]_vars

\* A creation has been answered 201.
C5_Witness ==
    \E r \in Creates :
        /\ Answered(r) /\ req[r].res[1].status = 201
        /\ Len(watchers) >= 1 /\ Len(payments) >= 1 /\ Len(receipts) >= 1

\* C6: every payment's shares sum to its amount, the operator's share is
\* 0.8 (4/5) of the amount and the platform's 0.2 (1/5), and the amount is
\* the price of the watcher's type.  Shares are in units of 1/FeeScale.
C6_SplitInvariant ==
    \A i \in 1..Len(payments) :
        LET p == payments[i]
        IN  /\ p.operatorShare + p.platformShare = p.amount * FeeScale
            /\ 5 * p.operatorShare = 4 * p.amount * FeeScale
            /\ 5 * p.platformShare = p.amount * FeeScale
            /\ \A j \in 1..Len(watchers) :
                  watchers[j].id = p.watcherId
                  => \E k \in 1..Len(types) :
                        types[k].id = watchers[j].typeId /\ types[k].price = p.amount

\* Payments for types of different prices have been persisted.
C6_Witness ==
    \E i, j \in 1..Len(payments) :
        /\ payments[i].amount # payments[j].amount
        /\ payments[i].operatorShare > 0 /\ payments[i].platformShare > 0

\* The webhook POSTs cycle c sent for watcher id.
PostsOf(log, c, id) == SelectSeq(log, LAMBDA x : x.cycle = c /\ x.watcherId = id)

\* Cycle c finishes the watcher it is at in this step.
FinishesWatcher(c) ==
    /\ cyc[c].pc \notin {"idle", "getWatchers", "done"}
    /\ cyc'[c].pc = "done" \/ cyc'[c].i # cyc[c].i

\* Cycle c has been answered.
CycleDone(c) == cyc[c].pc = "done"

\* C7: when a cycle finishes a watcher whose check returned triggered and
\* whose webhook POST was answered, the cycle has sent exactly one POST for
\* it and its persisted triggerCount is exactly 1 more than when the cycle
\* read it.
C7_NoDoubleTrigger ==
    [][\A c \in Cycles :
          FinishesWatcher(c)
          => LET w == Watcher(c)
                 sent == PostsOf(posts', c, w.id)
                 cur == WithId(watchers', w.id)
             IN  (/\ cyc[c].result # Absent
                  /\ cyc[c].result[1].triggered
                  /\ \E k \in 1..Len(sent) : sent[k].outcome # "rejected")
                 => /\ Len(sent) = 1
                    /\ Len(cur) = 1
                    /\ cur[1].triggerCount = w.triggerCount + 1]_vars

\* A cycle has delivered for a watcher, which now has triggerCount 1.
C7_Witness ==
    \E c \in Cycles, i \in 1..Len(watchers) :
        /\ CycleDone(c)
        /\ cyc[c].res[1].triggered >= 1
        /\ watchers[i].triggerCount = 1
        /\ \E k \in 1..Len(posts) :
              /\ posts[k].cycle = c /\ posts[k].watcherId = watchers[i].id
              /\ posts[k].outcome = "ok"

\* The POSTs of cycle c that were rejected.
Rejected(c) == SelectSeq(posts, LAMBDA x : x.cycle = c /\ x.outcome = "rejected")

C9_EachWatcherCountedOnce ==
    \A c \in Cycles :
        (CycleDone(c) /\ cyc[c].res[1].errors = 1 /\ Rejected(c) = <<>>)
        => cyc[c].res[1].checked + cyc[c].res[1].errors + cyc[c].res[1].skipped
              = Len(cyc[c].watchers)

\* C10: whatever fails while a watcher is processed (a check that throws, a
\* rejected webhook POST, a failed write of the watcher's state or of the
\* stats), the cycle is answered with the success summary and every
\* watcher of the scan has been processed: each was resolved, and so
\* counted as skipped or as checked.
C10_CycleSurvivesFailures ==
    \A c \in Cycles :
        CycleDone(c)
        => /\ cyc[c].res[1].status = 200
           /\ cyc[c].res[1].success
           /\ cyc[c].res[1].skipped + cyc[c].res[1].checked = Len(cyc[c].watchers)

\* A cycle over two watchers was answered after a failed write of one
\* watcher's state.
C10_Witness ==
    \E c \in Cycles :
        /\ CycleDone(c)
        /\ Len(cyc[c].watchers) = 2
        /\ cyc[c].res[1].checked = 2
        /\ cyc[c].res[1].errors >= 1
        /\ failures = 1
        /\ \A r \in Creates : Answered(r) => req[r].res[1].status = 201

\* The cycle skips watcher w: its type is missing, has no executorId, or
\* has an executorId that is not registered.
Skips(w) ==
    LET type == getWatcherType(types, w.typeId)
    IN  \/ type = Absent
        \/ type[1].executorId = ""
        \/ getExecutor(type[1].executorId) = Absent

\* The watchers of cycle c's scan that the cycle skips.
Skipped(c) == {i \in 1..Len(cyc[c].watchers) : Skips(cyc[c].watchers[i])}

\* C11: a cycle counts each active watcher whose type is missing, has no
\* executorId or has an unregistered executorId under skipped and under
\* neither checked nor errors, sends no webhook POST for it and leaves its
\* persisted record as the scan read it.
C11_SkipSemantics ==
    \A c \in Cycles :
        CycleDone(c)
        => /\ cyc[c].res[1].skipped = Cardinality(Skipped(c))
           /\ cyc[c].res[1].checked <= Len(cyc[c].watchers) - Cardinality(Skipped(c))
           /\ cyc[c].res[1].errors <= Len(cyc[c].watchers) - Cardinality(Skipped(c))
           /\ \A i \in Skipped(c) :
                 /\ PostsOf(posts, c, cyc[c].watchers[i].id) = <<>>
                 /\ WithId(watchers, cyc[c].watchers[i].id) = <<cyc[c].watchers[i]>>

\* A cycle over a watcher of the type without executorId and a watcher of
\* the type with an unregistered executorId has skipped both.
C11_Witness ==
    \E c \in Cycles :
        /\ CycleDone(c)
        /\ cyc[c].res[1].skipped = 2
        /\ \E i, j \in 1..Len(cyc[c].watchers) :
              /\ cyc[c].watchers[i].typeId = "t2"
              /\ cyc[c].watchers[j].typeId = "t3"

\* C12: when executor.check throws for a watcher, the cycle counts one
\* error, sends no webhook POST for the watcher and leaves its persisted
\* record (lastChecked, lastCheckResult, lastTriggered, triggerCount) as
\* the scan read it.
C12_CheckFailureLeavesRecord ==
    [][\A c \in Cycles :
          (cyc[c].pc = "check" /\ FinishesWatcher(c))
          => /\ cyc'[c].results.errors = cyc[c].results.errors + 1
             /\ cyc'[c].results.triggered = cyc[c].results.triggered
             /\ PostsOf(posts', c, Watcher(c).id) = <<>>
             /\ WithId(watchers', Watcher(c).id) = <<Watcher(c)>>]_vars

\* A cycle whose only watcher's check threw: one error, no POST, the
\* watcher never checked.
C12_Witness ==
    \E c \in Cycles :
        /\ CycleDone(c)
        /\ Len(cyc[c].watchers) = 1
        /\ cyc[c].res[1].errors = 1
        /\ PostsOf(posts, c, cyc[c].watchers[1].id) = <<>>
        /\ WithId(watchers, cyc[c].watchers[1].id)[1].lastChecked = Null

\* C13: no step makes the persisted triggerCount of a watcher smaller, also
\* when cycles overlap with each other and with creations.
C13_TriggerCountOnlyIncreases ==
    [][\A i \in 1..Len(watchers) : \A j \in 1..Len(watchers') :
          watchers'[j].id = watchers[i].id
          => watchers'[j].triggerCount >= watchers[i].triggerCount]_vars

\* Cycle c holds an answered webhook POST for the watcher it is at and is
\* writing that watcher's trigger fields.
RecordsDelivery(c, id) ==
    /\ cyc[c].pc = "updateWatcher.triggered.write"
    /\ Watcher(c).id = id
    /\ \E k \in 1..Len(posts) :
          /\ posts[k].cycle = c /\ posts[k].watcherId = id
          /\ ~fetchThrows(posts[k].outcome)

\* lastTriggered is set exactly when triggerCount is positive.
TriggeredIffCounted ==
    \A i \in 1..Len(watchers) :
        /\ watchers[i].triggerCount >= 0
        /\ watchers[i].lastTriggered # Null <=> watchers[i].triggerCount > 0

\* C14: in every reachable state every watcher's lastTriggered is set
\* exactly when its triggerCount is positive, and a step changes either
\* field of a watcher only as the write of a cycle whose webhook POST for
\* that watcher was answered.
C14_LastTriggeredIffCounted ==
    /\ []TriggeredIffCounted
    /\ [][\A i \in 1..Len(watchers) : \A j \in 1..Len(watchers') :
             (/\ watchers'[j].id = watchers[i].id
              /\ \/ watchers'[j].triggerCount # watchers[i].triggerCount
                 \/ watchers'[j].lastTriggered # watchers[i].lastTriggered)
             => \E c \in Cycles : RecordsDelivery(c, watchers[i].id)]_vars

\* One watcher was triggered and another never: the first has both fields
\* set, the second neither.
C14_Witness ==
    \E i, j \in 1..Len(watchers) :
        /\ watchers[i].triggerCount = 1 /\ watchers[i].lastTriggered # Null
        /\ watchers[j].triggerCount = 0 /\ watchers[j].lastTriggered = Null
        /\ watchers[j].lastChecked # Null

\* C15: no step makes a watcher type's stats.triggers smaller, also when a
\* cycle's increment of triggers overlaps with a creation's increment of
\* instances.
C15_TypeTriggersOnlyIncrease ==
    [][\A i \in 1..Len(types) : \A j \in 1..Len(types') :
          types'[j].id = types[i].id
          => types'[j].stats.triggers >= types[i].stats.triggers]_vars

\* Cycle c is in its loop, at a watcher.
AtWatcher(c) == cyc[c].pc \notin {"idle", "getWatchers", "done"}

\* C16: cycles exclude each other: no two cycles are at the same watcher
\* at the same time.
C16_CyclesExcludeEachOther ==
    \A c1, c2 \in Cycles :
        (c1 # c2 /\ AtWatcher(c1) /\ AtWatcher(c2))
        => Watcher(c1).id # Watcher(c2).id

\* The persisted status of watcher id is active.
PersistedActive(id) ==
    \E i \in 1..Len(watchers) : watchers[i].id = id /\ watchers[i].status = "active"

\* C17: a cycle calls check, sends a webhook POST or writes the record
\* only for a watcher whose persisted status is active, also when the
\* status changes while the cycle is in progress.
C17_OnlyActiveWatchers ==
    [][\A c \in Cycles :
          (\/ cyc[c].pc = "getWatcherType" /\ cyc'[c].pc = "check"
           \/ cyc[c].pc = "fetch" /\ posts' # posts
           \/ /\ cyc[c].pc \in {"updateWatcher.checked.write",
                                 "updateWatcher.triggered.write"}
              /\ cyc'[c].pc # cyc[c].pc
              /\ watchers' # watchers)
          => PersistedActive(Watcher(c).id)]_vars

\* C18: every cycle that has started is eventually answered, also when the
\* price API or a webhook endpoint never answers.
C18_CycleCompletes ==
    \A c \in 1..MaxRequests : (cyc[c].pc = "getWatchers") ~> (cyc[c].pc = "done")

\* The answered webhook POSTs sent for watcher id, by all cycles.
Delivered(log, id) ==
    SelectSeq(log, LAMBDA x : x.watcherId = id /\ ~fetchThrows(x.outcome))

ForWatcher(file, id) == SelectSeq(file, LAMBDA x : x.watcherId = id)

\* C20: when no creation request is in progress, every persisted watcher
\* has exactly one payment and exactly one receipt that refer to it, and
\* every payment and receipt refers to a persisted watcher, also after a
\* creation that failed at a store write.
C20_OnePaymentPerWatcher ==
    (\A r \in Creates : req[r].pc \in {"idle", "done"})
    => /\ \A i \in 1..Len(watchers) :
             /\ Len(ForWatcher(payments, watchers[i].id)) = 1
             /\ Len(ForWatcher(receipts, watchers[i].id)) = 1
       /\ \A i \in 1..Len(payments) : WithId(watchers, payments[i].watcherId) # <<>>
       /\ \A i \in 1..Len(receipts) : WithId(watchers, receipts[i].watcherId) # <<>>

\* C21: a persisted payment stays persisted with the fields it was created
\* with, and the payment list only grows at its end, also when two
\* creation requests write payments.json while they overlap.
C21_PaymentsAppendOnly ==
    [][/\ Len(payments') >= Len(payments)
       /\ \A i \in 1..Len(payments) : payments'[i] = payments[i]]_vars

\* The last registerExecutor call.
LastCall == reg[Len(reg)]

\* The executor has the two mandatory capabilities.
Mandatory(executor) == executor.check = "function" /\ executor.describe = "function"

\* After a registerExecutor call that did not throw, getExecutor returns
\* the executor and listExecutors has its id.
Registered ==
    (reg # <<>> /\ LastCall.thrown = "")
    => /\ getExecutor(LastCall.id) = Some(LastCall.executor)
       /\ LastCall.id \in listExecutors

\* C22: registerExecutor throws and leaves the registry as it was when the
\* executor has no check function or no describe function; else it does
\* not throw, with or without validate, and afterwards getExecutor(id)
\* returns the executor and listExecutors contains id.
C22_RegisterExecutor ==
    /\ []Registered
    /\ [][reg' # reg
          => IF Mandatory(reg'[Len(reg')].executor)
             THEN reg'[Len(reg')].thrown = ""
             ELSE reg'[Len(reg')].thrown # "" /\ executors' = executors]_vars

\* An executor without validate was registered under a new id, after a
\* call with an executor without describe had thrown.
C22_Witness ==
    /\ Len(reg) = 2
    /\ reg[1].executor = Executor("function", "undefined", "function")
    /\ reg[1].thrown # ""
    /\ reg[2].id = "custom"
    /\ reg[2].executor = Executor("function", "function", "undefined")
    /\ reg[2].thrown = ""
    /\ getExecutor("custom") = Some(reg[2].executor)
    /\ listExecutors = {"wallet-balance", "token-price", "custom"}

\* The fields of a config object, whatever the order of its keys.
Fields(config) == {config[i] : i \in 1..Len(config)}

\* Two parameter records that differ at most in the order of config's keys.
SameUpToKeyOrder(p, q) ==
    /\ p.typeId = q.typeId /\ p.webhook = q.webhook /\ p.customerId = q.customerId
    /\ Fields(p.config) = Fields(q.config)

WellFormedUrl(webhook) ==
    \E scheme \in {<<"h", "t", "t", "p", ":", "/", "/">>,
                    <<"h", "t", "t", "p", "s", ":", "/", "/">>} :
        startsWith(webhook, scheme) /\ Len(webhook) > Len(scheme)

\* C24: a creation request whose webhook is no well-formed HTTP(S) URL,
\* a string that only begins with 'http' included, is answered 400 unless
\* its type or operator is unknown, and leaves every persisted record as
\* it was when the request arrived.
C24_InvalidWebhookRejected ==
    \A r \in Creates :
        (/\ Answered(r)
         /\ ~WellFormedUrl(req[r].body[1].webhook)
         /\ req[r].res[1].status # 404
         /\ req[r].res[1].error # "Operator not found")
        => /\ req[r].res[1].status = 400
           /\ \A i \in 1..Len(watchers) :
                 watchers[i].webhook # req[r].body[1].webhook

\* C25: when a cycle finishes a watcher whose check returned a result, the
\* watcher's persisted lastChecked is the time of the cycle and its
\* lastCheckResult is the result's data, whether or not the result was
\* triggered and whether or not the webhook POST was answered.
C25_CommitStep ==
    [][\A c \in Cycles :
          (FinishesWatcher(c) /\ cyc[c].result # Absent)
          => LET cur == WithId(watchers', Watcher(c).id)
             IN  /\ Len(cur) = 1
                 /\ cur[1].lastChecked = now
                 /\ cur[1].lastCheckResult = Some(cyc[c].result[1].data)]_vars

\* A first cycle checked a watcher that did not trigger, a second one
\* checked it again and its webhook POST was rejected: the watcher holds
\* the second check's time and data.
C25_Witness ==
    \E c1, c2 \in Cycles, i \in 1..Len(watchers) :
        /\ c2 = c1 + 1 /\ CycleDone(c1) /\ CycleDone(c2)
        /\ cyc[c1].res[1].checked = 1 /\ cyc[c1].res[1].errors = 0
        /\ PostsOf(posts, c1, watchers[i].id) = <<>>
        /\ Len(PostsOf(posts, c2, watchers[i].id)) = 1
        /\ PostsOf(posts, c2, watchers[i].id)[1].outcome = "rejected"
        /\ watchers[i].lastChecked = cyc[c2].res[1].timestamp
        /\ watchers[i].lastCheckResult
              = Some(PostsOf(posts, c2, watchers[i].id)[1].data)
        /\ watchers[i].triggerCount = 0

\* The watchers of cycle c's scan whose persisted lastChecked is the time
\* of cycle c.
CheckedIn(c) ==
    {i \in 1..Len(cyc[c].watchers) :
        \E j \in 1..Len(watchers) :
            /\ watchers[j].id = cyc[c].watchers[i].id
            /\ watchers[j].lastChecked = cyc[c].res[1].timestamp}

\* C26: the checked counter of a cycle is the number of watchers whose
\* check returned a result and whose lastChecked the cycle persisted; a
\* watcher whose check throws is counted under errors and not under
\* checked.  Stated of the last cycle answered, whose time no later
\* request shares.
C26_CheckedCountsEvaluations ==
    \A c \in Cycles :
        (CycleDone(c) /\ cyc[c].res[1].timestamp = now)
        => cyc[c].res[1].checked = Cardinality(CheckedIn(c))

\* The sum of a sequence of numbers.
RECURSIVE Sum(_)
Sum(s) == IF s = <<>> THEN 0 ELSE s[1] + Sum(Tail(s))

\* No cycle is in progress.
NoCycleInFlight == \A c \in Cycles : cyc[c].pc \in {"idle", "done"}

\* C27: the four trigger counters move together: when no cycle is in
\* progress, the triggerCounts of all watchers, the totalTriggers of all
\* operators, the triggers of all watcher types and the triggered counters
\* of all cycles answered have the same sum, which is at most the number
\* of webhook POSTs that were answered, also after a store write failed
\* after a delivery.
C27_CountersMoveTogether ==
    NoCycleInFlight
    => LET delivered == Len(SelectSeq(posts, LAMBDA x : ~fetchThrows(x.outcome)))
           counted == Sum([i \in 1..Len(watchers) |-> watchers[i].triggerCount])
       IN  /\ counted <= delivered
           /\ Sum([i \in 1..Len(operators) |-> operators[i].stats.totalTriggers])
                 = counted
           /\ Sum([i \in 1..Len(types) |-> types[i].stats.triggers]) = counted
           /\ Sum([c \in 1..Len(cyc) |-> cyc[c].results.triggered]) = counted

\* The fields of a watcher record that no cycle may change.
Frame(w) ==
    [id |-> w.id, typeId |-> w.typeId, operatorId |-> w.operatorId,
     customerId |-> w.customerId, config |-> w.config, webhook |-> w.webhook,
     status |-> w.status, createdAt |-> w.createdAt]

\* Cycle c writes watchers.json in this step.
CycleWrites(c) ==
    /\ cyc[c].pc \in {"updateWatcher.checked.write", "updateWatcher.triggered.write"}
    /\ cyc'[c].pc # cyc[c].pc
    /\ watchers' # watchers

\* C28: a write of a cycle keeps every watcher record and changes none of
\* its id, typeId, operatorId, customerId, config, webhook, status and
\* createdAt, also when the cycle overlaps with a creation or a status
\* change.
C28_CycleKeepsFrame ==
    [][\A c \in Cycles :
          CycleWrites(c)
          => \A i \in 1..Len(watchers) :
                \E j \in 1..Len(watchers') : Frame(watchers'[j]) = Frame(watchers[i])]_vars

\* The requests answered 201.
Succeeded == {r \in Creates : Answered(r) /\ req[r].res[1].status = 201}

\* C29: when creation requests that overlapped have all been answered
\* 201, the watcher, the payment and the receipt of each of them are
\* persisted, and the operators' watchersCreated and the types' instances
\* have grown by the number of requests.
C29_OverlappingCreationsTakeEffect ==
    (Succeeded = Creates)
    => /\ \A r \in Succeeded :
             /\ WithId(watchers, req[r].res[1].watcherId) # <<>>
             /\ ForWatcher(payments, req[r].res[1].watcherId) # <<>>
             /\ ForWatcher(receipts, req[r].res[1].watcherId) # <<>>
       /\ Sum([i \in 1..Len(operators) |-> operators[i].stats.watchersCreated])
             = Cardinality(Succeeded)
       /\ Sum([i \in 1..Len(types) |-> types[i].stats.instances])
             = Cardinality(Succeeded)

\* C30: a webhook POST answered with an error status counts as delivered:
\* when the cycle finishes the watcher, its triggerCount is 1 more than the
\* scan read, its lastTriggered is the time of the cycle and the cycle's
\* triggered counter has grown by 1, with no error counted; only a
\* rejected POST leaves the three as they were and counts an error.
C30_ErrorStatusCountsAsDelivered ==
    [][\A c \in Cycles :
          (FinishesWatcher(c) /\ PostsOf(posts', c, Watcher(c).id) # <<>>)
          => LET w == Watcher(c)
                 sent == PostsOf(posts', c, w.id)[1]
                 cur == WithId(watchers', w.id)[1]
             IN  IF sent.outcome = "rejected"
                 THEN /\ cur.triggerCount = w.triggerCount
                      /\ cur.lastTriggered = w.lastTriggered
                      /\ cyc'[c].results.triggered = cyc[c].results.triggered
                      /\ cyc'[c].results.errors = cyc[c].results.errors + 1
                 ELSE /\ cur.triggerCount = w.triggerCount + 1
                      /\ cur.lastTriggered = now
                      /\ cyc'[c].results.triggered = cyc[c].results.triggered + 1
                      /\ cyc'[c].results.errors = cyc[c].results.errors]_vars

\* A cycle whose webhook POST was answered with an error status reported
\* the watcher as triggered, and the watcher's triggerCount is 1.
C30_Witness ==
    \E c \in Cycles, i \in 1..Len(watchers) :
        /\ CycleDone(c)
        /\ Len(PostsOf(posts, c, watchers[i].id)) = 1
        /\ PostsOf(posts, c, watchers[i].id)[1].outcome = "http-error"
        /\ cyc[c].res[1].triggered = 1 /\ cyc[c].res[1].errors = 0
        /\ watchers[i].triggerCount = 1
        /\ watchers[i].lastTriggered # Null

\* Request r, which arrived when a receipt for its fingerprint was recorded,
\* takes a step.
ReplaySteps(r) ==
    /\ req[r].pc \notin {"idle", "done"}
    /\ req'[r] # req[r]
    /\ ReceiptAtArrival(r) # <<>>

\* C31: a creation request that arrives when a receipt for its fingerprint
\* is recorded creates no watcher, payment or receipt, whether or not the
\* receipt's watcher is still persisted, and is answered with that receipt,
\* flagged idempotent; a watcher that has been deleted is reported by its id
\* only, a persisted one by id, typeId and status.
C31_ReplayAfterDeletion ==
    [][\A r \in Creates :
          /\ ReplaySteps(r)
             => /\ watchers' = watchers
                /\ payments' = payments
                /\ receipts' = receipts
          /\ (ReplaySteps(r) /\ Answers(r))
             => LET receipt == ReceiptAtArrival(r)[1]
                    persisted == WithId(watchers, receipt.watcherId)
                IN  /\ req'[r].res[1].status = 200
                    /\ req'[r].res[1].idempotent
                    /\ req'[r].res[1].receipt = <<receipt>>
                    /\ req'[r].res[1].watcher[1].id = receipt.watcherId
                    /\ DOMAIN req'[r].res[1].watcher[1]
                          = IF persisted = <<>> THEN {"id"}
                                                ELSE {"id", "typeId", "status"}]_vars

\* A request answered as a replay of a receipt whose watcher was deleted
\* before the request arrived: the watcher is reported by its id only.
C31_Witness ==
    \E r \in Creates :
        /\ Answered(r)
        /\ ReceiptAtArrival(r) # <<>>
        /\ WithId(req[r].pre[1].watchers, ReceiptAtArrival(r)[1].watcherId) = <<>>
        /\ req[r].res[1].status = 200
        /\ req[r].res[1].idempotent
        /\ DOMAIN req[r].res[1].watcher[1] = {"id"}
        /\ WithId(watchers, ReceiptAtArrival(r)[1].watcherId) = <<>>
        /\ Len(receipts) = Len(req[r].pre[1].receipts)

\* C32: tokenPriceExecutor.check returns triggered = true exactly when the
\* direction is 'above' and the price is greater than the threshold, or the
\* direction is anything else and the price is less than the threshold; a
\* price equal to the threshold never triggers; and check throws, returning
\* no result, when the price API answers with a non-OK status or has no
\* price for the token.
C32_CheckSemantics ==
    \A i \in 1..Len(evals) :
        LET call == evals[i]
            direction == Field(call.config, "direction").s
            threshold == Field(call.config, "threshold").n
            price == call.api.price
        IN  /\ call.api.kind \in {"not-ok", "no-price"}
               => call.thrown /\ call.result = Absent
            /\ call.api.kind = "price"
               => /\ ~call.thrown
                  /\ call.result # Absent
                  /\ call.result[1].triggered
                        <=> \/ direction = "above" /\ price > threshold
                            \/ direction # "above" /\ price < threshold
                  /\ price = threshold => ~call.result[1].triggered

\* check was called with a price equal to the threshold and returned
\* triggered = false, and was called when the API answered non-OK and threw.
C32_Witness ==
    \E i, j \in 1..Len(evals) :
        /\ evals[i].api.kind = "price"
        /\ evals[i].api.price = Field(evals[i].config, "threshold").n
        /\ evals[i].result # Absent
        /\ ~evals[i].result[1].triggered
        /\ evals[j].api.kind = "not-ok"
        /\ evals[j].thrown
        /\ evals[j].result = Absent

====
